---- MODULE Spec2Model ----
(***************************************************************************)
(* A model of tchajed/minimal-elf: the library (src/lib.rs) that builds a  *)
(* minimal ELF64 executable in a byte buffer and writes it to a path, and  *)
(* the standalone binary (src/main.rs) that does the same into "tiny".     *)
(*                                                                         *)
(* Buffers, files and registers are sequences of bytes (0..255).  Fields   *)
(* are written little-endian at the offsets the define_layout! records     *)
(* give them.  Sequences are 1-based: byte offset k is index k+1.          *)
(***************************************************************************)
EXTENDS Integers, Sequences, FiniteSets, TLC

VARIABLES
    pc,        \* position of the running invocation
    caller,    \* "none" | "create_elf" | "write_elf" | "main"
    path,      \* the path write_elf / main opens
    program,   \* the payload handed to create_elf
    buf,       \* the buffer under construction
    pos,       \* cursor of the open file
    fs,        \* the file system: path -> file
    fs0,       \* history: fs when the running invocation was called
    lastLib,   \* history: buffer built by the last finished write_elf
    lastMain,  \* history: buffer built by the last finished main
    calls,     \* number of finished invocations
    cpu        \* the processor executing a payload

vars == <<pc, caller, path, program, buf, pos, fs, fs0, lastLib, lastMain, calls, cpu>>

---------------------------------------------------------------------------
(* Bounds of the model *)

MaxCalls == 2
MaxPayloadLen == 2
StaleLen == 130
ShortWrite == 60

PayloadBytes == {0, 255}
Paths == {"tiny", "out"}

---------------------------------------------------------------------------
(* Bytes and little-endian encoding *)

RECURSIVE LE(_, _)
\* the n little-endian bytes of v (binary_layout's LittleEndian write)
LE(v, n) == IF n = 0 THEN <<>> ELSE <<v % 256>> \o LE(v \div 256, n - 1)

RECURSIVE Decode(_)
\* the unsigned value of little-endian bytes
Decode(bytes) ==
    IF bytes = <<>> THEN 0 ELSE Head(bytes) + 256 * Decode(Tail(bytes))

Slice(s, off, n) == [i \in 1..n |-> s[off + i]]

\* dst[off .. off+len) := src, as <[u8]>::copy_from_slice on the field's
\* slice.  The slice has the field's length; the source has it too at every
\* call of the program (it panics otherwise).
copy_from_slice(dst, off, src) ==
    [i \in 1..Len(dst) |->
        IF i > off /\ i <= off + Len(src) THEN src[i - off] ELSE dst[i]]

---------------------------------------------------------------------------
(* define_layout!: a record layout is the sequence of its <<field, size>>  *)

RECURSIVE SizeOf(_)
SizeOf(layout) ==
    IF layout = <<>> THEN 0 ELSE Head(layout)[2] + SizeOf(Tail(layout))

RECURSIVE OffsetOf(_, _)
OffsetOf(layout, name) ==
    IF Head(layout)[1] = name THEN 0
    ELSE Head(layout)[2] + OffsetOf(Tail(layout), name)

RECURSIVE FieldSize(_, _)
FieldSize(layout, name) ==
    IF Head(layout)[1] = name THEN Head(layout)[2]
    ELSE FieldSize(Tail(layout), name)

\* view.<name>_mut().write(v) on a view of `layout` that starts at `base`
WriteField(b, base, layout, name, v) ==
    copy_from_slice(b, base + OffsetOf(layout, name),
                    LE(v, FieldSize(layout, name)))

elf64_ident ==
    << <<"mag", 4>>, <<"class", 1>>, <<"data", 1>>, <<"version", 1>>,
       <<"os_abi", 1>>, <<"abi_version", 1>>, <<"pad", 7>> >>

elf64_hdr ==
    << <<"ident", SizeOf(elf64_ident)>>, <<"_type", 2>>, <<"machine", 2>>,
       <<"version", 4>>, <<"entry", 8>>, <<"phoff", 8>>, <<"shoff", 8>>,
       <<"flags", 4>>, <<"ehsize", 2>>, <<"phentsize", 2>>, <<"phnum", 2>>,
       <<"shentsize", 2>>, <<"shnum", 2>>, <<"shstrndx", 2>> >>

elf64_phdr ==
    << <<"_type", 4>>, <<"flags", 4>>, <<"offset", 8>>, <<"vaddr", 8>>,
       <<"paddr", 8>>, <<"filesz", 8>>, <<"memsz", 8>>, <<"align", 8>> >>

\* elf64_file: hdr, phdr, then the unsized program: [u8]
elf64_file_hdr == 0
elf64_file_phdr == SizeOf(elf64_hdr)
elf64_file_program == SizeOf(elf64_hdr) + SizeOf(elf64_phdr)

AsU16(x) == x % 65536

---------------------------------------------------------------------------
(* src/lib.rs *)

VADDR == 4194304

PROGRAM_OFFSET_hdr_only == SizeOf(elf64_hdr)
PROGRAM_OFFSET == SizeOf(elf64_hdr) + SizeOf(elf64_phdr)

set_ident(b, base) ==
    LET b1 == copy_from_slice(b, base + OffsetOf(elf64_ident, "mag"),
                              <<127, 69, 76, 70>>)
        b2 == WriteField(b1, base, elf64_ident, "class", 2)
        b3 == WriteField(b2, base, elf64_ident, "data", 1)
        b4 == WriteField(b3, base, elf64_ident, "version", 1)
        b5 == WriteField(b4, base, elf64_ident, "os_abi", 0)
        b6 == WriteField(b5, base, elf64_ident, "abi_version", 0)
    IN  copy_from_slice(b6, base + OffsetOf(elf64_ident, "pad"),
                        <<0, 0, 0, 0, 0, 0, 0>>)

set_elf64_hdr(b, base) ==
    LET b0 == set_ident(b, base + OffsetOf(elf64_hdr, "ident"))
        b1 == WriteField(b0, base, elf64_hdr, "_type", 2)
        b2 == WriteField(b1, base, elf64_hdr, "machine", 62)
        b3 == WriteField(b2, base, elf64_hdr, "version", 1)
        b4 == WriteField(b3, base, elf64_hdr, "entry", VADDR + PROGRAM_OFFSET)
        b5 == WriteField(b4, base, elf64_hdr, "phoff", SizeOf(elf64_hdr))
        b6 == WriteField(b5, base, elf64_hdr, "flags", 0)
        b7 == WriteField(b6, base, elf64_hdr, "ehsize", AsU16(SizeOf(elf64_hdr)))
        b8 == WriteField(b7, base, elf64_hdr, "phentsize", AsU16(SizeOf(elf64_phdr)))
    IN  WriteField(b8, base, elf64_hdr, "phnum", 1)

set_elf64_phdr_no_memsz(b, base, program_size) ==
    LET b1 == WriteField(b, base, elf64_phdr, "_type", 1)
        b2 == WriteField(b1, base, elf64_phdr, "flags", 7)
        offset == SizeOf(elf64_hdr) + SizeOf(elf64_phdr)
        b3 == WriteField(b2, base, elf64_phdr, "offset", offset)
        b4 == WriteField(b3, base, elf64_phdr, "vaddr", VADDR + PROGRAM_OFFSET)
        b5 == WriteField(b4, base, elf64_phdr, "filesz", program_size)
    IN  WriteField(b5, base, elf64_phdr, "align", 4096)
set_elf64_phdr_vaddr_base(b, base, program_size) ==
    LET b1 == WriteField(b, base, elf64_phdr, "_type", 1)
        b2 == WriteField(b1, base, elf64_phdr, "flags", 7)
        offset == SizeOf(elf64_hdr) + SizeOf(elf64_phdr)
        b3 == WriteField(b2, base, elf64_phdr, "offset", offset)
        b4 == WriteField(b3, base, elf64_phdr, "vaddr", VADDR)
        b5 == WriteField(b4, base, elf64_phdr, "filesz", program_size)
        b6 == WriteField(b5, base, elf64_phdr, "memsz", program_size)
    IN  WriteField(b6, base, elf64_phdr, "align", 4096)
set_elf64_phdr(b, base, program_size) ==
    LET b1 == WriteField(b, base, elf64_phdr, "_type", 1)
        b2 == WriteField(b1, base, elf64_phdr, "flags", 7)
        offset == SizeOf(elf64_hdr) + SizeOf(elf64_phdr)
        b3 == WriteField(b2, base, elf64_phdr, "offset", offset)
        b4 == WriteField(b3, base, elf64_phdr, "vaddr", VADDR + PROGRAM_OFFSET)
        b5 == WriteField(b4, base, elf64_phdr, "filesz", program_size)
        b6 == WriteField(b5, base, elf64_phdr, "memsz", program_size)
    IN  WriteField(b6, base, elf64_phdr, "align", 4096)

\* vec![0u8; n]
vec_ones(n) == [i \in 1..n |-> 1]
vec_stale(n) == [i \in 1..n |-> calls % 256]
vec_zeroed(n) == [i \in 1..n |-> 0]

\* file.program_mut().copy_from_slice(program)
copy_program_shifted(b, prog) == copy_from_slice(b, elf64_file_program - 1, prog)
copy_program(b, prog) == copy_from_slice(b, elf64_file_program, prog)

---------------------------------------------------------------------------
(* iced_x86's CodeAssembler, for the instructions the program assembles *)

rax == 0
edi == 7

push_imm(imm) == [op |-> "push", imm |-> imm]
pop_r64(r) == [op |-> "pop", reg |-> r]
xor_r32(dst, src) == [op |-> "xor", dst |-> dst, src |-> src]
syscall == [op |-> "syscall"]

\* the encoding of one instruction in 64-bit mode
Encode(i) ==
    CASE i.op = "push" ->
            IF i.imm >= -128 /\ i.imm <= 127
            THEN <<106, i.imm % 256>>              \* 6A ib
            ELSE <<104>> \o LE(i.imm, 4)           \* 68 id
      [] i.op = "pop" -> <<88 + i.reg>>            \* 58+rd
      [] i.op = "xor" -> <<49, 192 + 8 * i.src + i.dst>>   \* 31 /r, mod = 11
      [] i.op = "syscall" -> <<15, 5>>             \* 0F 05

RECURSIVE assemble(_)
assemble(instrs) ==
    IF instrs = <<>> THEN <<>>
    ELSE Encode(Head(instrs)) \o assemble(Tail(instrs))

create_program_no_xor == assemble(<<push_imm(60), pop_r64(rax), syscall>>)
create_program ==
    assemble(<<push_imm(60), pop_r64(rax), xor_r32(edi, edi), syscall>>)

---------------------------------------------------------------------------
(* src/main.rs *)

program_offset_hdr_only == SizeOf(elf64_hdr)
program_offset == SizeOf(elf64_hdr) + SizeOf(elf64_phdr)

main_set_ident(b, base) ==
    LET b1 == copy_from_slice(b, base + OffsetOf(elf64_ident, "mag"),
                              <<127, 69, 76, 70>>)
        b2 == WriteField(b1, base, elf64_ident, "class", 2)
        b3 == WriteField(b2, base, elf64_ident, "data", 1)
        b4 == WriteField(b3, base, elf64_ident, "version", 1)
        b5 == WriteField(b4, base, elf64_ident, "os_abi", 0)
        b6 == WriteField(b5, base, elf64_ident, "abi_version", 0)
    IN  copy_from_slice(b6, base + OffsetOf(elf64_ident, "pad"),
                        <<0, 0, 0, 0, 0, 0, 0>>)

main_set_elf64_hdr(b, base) ==
    LET b0 == main_set_ident(b, base + OffsetOf(elf64_hdr, "ident"))
        b1 == WriteField(b0, base, elf64_hdr, "_type", 2)
        b2 == WriteField(b1, base, elf64_hdr, "machine", 62)
        b3 == WriteField(b2, base, elf64_hdr, "version", 1)
        b4 == WriteField(b3, base, elf64_hdr, "entry", VADDR + program_offset)
        b5 == WriteField(b4, base, elf64_hdr, "phoff", SizeOf(elf64_hdr))
        b6 == WriteField(b5, base, elf64_hdr, "flags", 0)
        b7 == WriteField(b6, base, elf64_hdr, "ehsize", AsU16(SizeOf(elf64_hdr)))
        b8 == WriteField(b7, base, elf64_hdr, "phentsize", AsU16(SizeOf(elf64_phdr)))
    IN  WriteField(b8, base, elf64_hdr, "phnum", 1)

main_set_elf64_phdr(b, base, program_size) ==
    LET b1 == WriteField(b, base, elf64_phdr, "_type", 1)
        b2 == WriteField(b1, base, elf64_phdr, "flags", 7)
        b3 == WriteField(b2, base, elf64_phdr, "offset", program_offset)
        b4 == WriteField(b3, base, elf64_phdr, "vaddr", VADDR + program_offset)
        b5 == WriteField(b4, base, elf64_phdr, "filesz", program_size)
        b6 == WriteField(b5, base, elf64_phdr, "memsz", program_size)
    IN  WriteField(b6, base, elf64_phdr, "align", 4096)

try_create_program == assemble(<<push_imm(60), pop_r64(rax), syscall>>)
main_create_program == try_create_program

---------------------------------------------------------------------------
(* The file system and std::fs::OpenOptions / Write::write_all *)

NoFile == [exists |-> FALSE, data |-> <<>>, mode |-> 0]

\* a file some earlier program left behind: n bytes of 0xAA, mode 0o644
StaleFile(n) == [exists |-> TRUE, data |-> [i \in 1..n |-> 170], mode |-> 420]

\* options.write(true).create(true).mode(0o755).open(path): an absent file
\* is created empty with the mode; an existing one is opened as it is (no
\* truncate, no append), its mode unchanged.  The cursor starts at 0.
open_write_create(f) ==
    IF f.exists THEN f ELSE [exists |-> TRUE, data |-> <<>>, mode |-> 493]

\* write(2) of `bytes` at cursor `at`: overwrites, and extends the file
file_write(data, at, bytes) ==
    [i \in 1..(IF Len(data) > at + Len(bytes) THEN Len(data) ELSE at + Len(bytes)) |->
        IF i > at /\ i <= at + Len(bytes) THEN bytes[i - at] ELSE data[i]]

---------------------------------------------------------------------------
(* The processor: registers are 8 little-endian bytes *)

Zero8 == <<0, 0, 0, 0, 0, 0, 0, 0>>
RegVals == {Zero8, LE(60, 8), <<255, 255, 255, 255, 255, 255, 255, 255>>,
            <<1, 0, 0, 0, 1, 0, 0, 0>>}

RECURSIVE XorBits(_, _, _)
XorBits(a, b, bits) ==
    IF bits = 0 THEN 0
    ELSE (((a % 2) + (b % 2)) % 2) + 2 * XorBits(a \div 2, b \div 2, bits - 1)

\* a 32-bit result written to a 64-bit register zero-extends
Xor32(a, b) == [i \in 1..8 |-> IF i <= 4 THEN XorBits(a[i], b[i], 8) ELSE 0]

SignExtend8(b) == [i \in 1..8 |-> IF i = 1 THEN b ELSE IF b >= 128 THEN 255 ELSE 0]

CpuOff ==
    [status |-> "off", image |-> "none", code |-> <<>>, ip |-> 0,
     regs |-> [r \in 0..7 |-> Zero8], stack |-> <<>>,
     rax0 |-> Zero8, rdi0 |-> Zero8]

\* one instruction, fetched at code[ip]
Exec(c) ==
    LET left == Len(c.code) - c.ip
        op == c.code[c.ip + 1]
        fault == [c EXCEPT !.status = "fault"]
    IN  IF left < 1 THEN fault
        ELSE IF op = 106 THEN                        \* push imm8
            IF left < 2 THEN fault
            ELSE [c EXCEPT !.stack = <<SignExtend8(c.code[c.ip + 2])>> \o @,
                           !.ip = @ + 2]
        ELSE IF op >= 88 /\ op <= 95 THEN            \* pop r64
            IF c.stack = <<>> THEN fault
            ELSE [c EXCEPT !.regs[op - 88] = Head(c.stack),
                           !.stack = Tail(@), !.ip = @ + 1]
        ELSE IF op = 49 THEN                         \* xor r/m32, r32
            IF left < 2 \/ c.code[c.ip + 2] \div 64 # 3 THEN fault
            ELSE LET modrm == c.code[c.ip + 2]
                     reg == (modrm \div 8) % 8
                     rm == modrm % 8
                 IN  [c EXCEPT !.regs[rm] = Xor32(c.regs[rm], c.regs[reg]),
                               !.ip = @ + 2]
        ELSE IF op = 15 THEN                         \* syscall
            IF left < 2 \/ c.code[c.ip + 2] # 5 THEN fault
            ELSE [c EXCEPT !.status = "syscall", !.ip = @ + 2]
        ELSE fault

---------------------------------------------------------------------------
(* State machine *)

Payloads == UNION {[1..n -> PayloadBytes] : n \in 0..MaxPayloadLen}

Init ==
    /\ pc = "idle"
    /\ caller = "none"
    /\ path = "none"
    /\ program = <<>>
    /\ buf = <<>>
    /\ pos = 0
    /\ fs \in [Paths -> {NoFile, StaleFile(0), StaleFile(StaleLen)}]
    /\ fs0 = fs
    /\ lastLib = <<>>
    /\ lastMain = <<>>
    /\ calls = 0
    /\ cpu = CpuOff

\* a direct call create_elf(p)
CallCreateElf ==
    /\ pc = "idle" /\ calls < MaxCalls
    /\ \E p \in Payloads : program' = p
    /\ caller' = "create_elf"
    /\ pc' = "alloc"
    /\ fs0' = fs
    /\ UNCHANGED <<path, buf, pos, fs, lastLib, lastMain, calls, cpu>>

\* write_elf(path)
CallWriteElf ==
    /\ pc = "idle" /\ calls < MaxCalls
    /\ \E p \in Paths : path' = p
    /\ caller' = "write_elf"
    /\ pc' = "program"
    /\ fs0' = fs
    /\ UNCHANGED <<program, buf, pos, fs, lastLib, lastMain, calls, cpu>>

\* the standalone binary
CallMain ==
    /\ pc = "idle" /\ calls < MaxCalls
    /\ path' = "tiny"
    /\ caller' = "main"
    /\ pc' = "program"
    /\ fs0' = fs
    /\ UNCHANGED <<program, buf, pos, fs, lastLib, lastMain, calls, cpu>>

CreateProgram ==
    /\ pc = "program"
    /\ program' = IF caller = "main" THEN main_create_program ELSE create_program
    /\ pc' = "alloc"
    /\ UNCHANGED <<caller, path, buf, pos, fs, fs0, lastLib, lastMain, calls, cpu>>

Alloc ==
    /\ pc = "alloc"
    /\ buf' = vec_zeroed(SizeOf(elf64_hdr) + SizeOf(elf64_phdr) + Len(program))
    /\ pc' = "hdr"
    /\ UNCHANGED <<caller, path, program, pos, fs, fs0, lastLib, lastMain, calls, cpu>>

SetHdr ==
    /\ pc = "hdr"
    /\ buf' = IF caller = "main" THEN main_set_elf64_hdr(buf, elf64_file_hdr)
              ELSE set_elf64_hdr(buf, elf64_file_hdr)
    /\ pc' = "phdr"
    /\ UNCHANGED <<caller, path, program, pos, fs, fs0, lastLib, lastMain, calls, cpu>>

SetPhdr ==
    /\ pc = "phdr"
    /\ buf' = IF caller = "main"
              THEN main_set_elf64_phdr(buf, elf64_file_phdr, Len(program))
              ELSE set_elf64_phdr(buf, elf64_file_phdr, Len(program))
    /\ pc' = "copy"
    /\ UNCHANGED <<caller, path, program, pos, fs, fs0, lastLib, lastMain, calls, cpu>>

CopyProgram ==
    /\ pc = "copy"
    /\ buf' = copy_program(buf, program)
    /\ pc' = "built"
    /\ UNCHANGED <<caller, path, program, pos, fs, fs0, lastLib, lastMain, calls, cpu>>

\* create_elf returns to a direct caller
Return ==
    /\ pc = "built" /\ caller = "create_elf"
    /\ pc' = "done"
    /\ UNCHANGED <<caller, path, program, buf, pos, fs, fs0, lastLib, lastMain, calls, cpu>>

OpenOk ==
    /\ pc = "built" /\ caller \in {"write_elf", "main"}
    /\ fs' = [fs EXCEPT ![path] = open_write_create(@)]
    /\ pos' = 0
    /\ pc' = "write"
    /\ UNCHANGED <<caller, path, program, buf, fs0, lastLib, lastMain, calls, cpu>>

\* open(path)? returns the error
OpenErr ==
    /\ pc = "built" /\ caller \in {"write_elf", "main"}
    /\ pc' = "err"
    /\ UNCHANGED <<caller, path, program, buf, pos, fs, fs0, lastLib, lastMain, calls, cpu>>

\* one write(2) of write_all's loop: the system takes all that is left, or
\* only ShortWrite bytes of it
WriteSome ==
    /\ pc = "write" /\ pos < Len(buf)
    /\ \E n \in {ShortWrite, Len(buf) - pos} :
        /\ n >= 1 /\ n <= Len(buf) - pos
        /\ fs' = [fs EXCEPT ![path].data = file_write(@, pos, Slice(buf, pos, n))]
        /\ pos' = pos + n
    /\ UNCHANGED <<pc, caller, path, program, buf, fs0, lastLib, lastMain, calls, cpu>>

\* a write(2) fails: write_all(&buf)? returns the error
WriteErr ==
    /\ pc = "write" /\ pos < Len(buf)
    /\ pc' = "err"
    /\ UNCHANGED <<caller, path, program, buf, pos, fs, fs0, lastLib, lastMain, calls, cpu>>

\* everything is written: Ok(()), and the file is closed
WriteAllOk ==
    /\ pc = "write" /\ pos = Len(buf)
    /\ pc' = "ok"
    /\ UNCHANGED <<caller, path, program, buf, pos, fs, fs0, lastLib, lastMain, calls, cpu>>

\* the invocation is over; the next one starts from nothing but the files
Finish ==
    /\ pc \in {"done", "ok", "err"}
    /\ lastLib' = IF caller = "write_elf" THEN buf ELSE lastLib
    /\ lastMain' = IF caller = "main" THEN buf ELSE lastMain
    /\ calls' = calls + 1
    /\ pc' = "idle"
    /\ caller' = "none"
    /\ path' = "none"
    /\ program' = <<>>
    /\ buf' = <<>>
    /\ pos' = 0
    /\ fs0' = fs
    /\ UNCHANGED <<fs, cpu>>

Next ==
    \/ CallCreateElf \/ CallWriteElf \/ CallMain
    \/ CreateProgram \/ Alloc \/ SetHdr \/ SetPhdr \/ CopyProgram
    \/ Return \/ OpenOk \/ OpenErr \/ WriteSome \/ WriteErr \/ WriteAllOk
    \/ Finish

Spec == Init /\ [][Next]_vars

---------------------------------------------------------------------------
(* Running a payload: the loader has mapped it and jumps to its first byte *)

InitExec ==
    /\ pc = "idle"
    /\ caller = "none"
    /\ path = "none"
    /\ program = <<>>
    /\ buf = <<>>
    /\ pos = 0
    /\ fs = [p \in Paths |-> NoFile]
    /\ fs0 = fs
    /\ lastLib = <<>>
    /\ lastMain = <<>>
    /\ calls = 0
    /\ cpu = CpuOff

Boot ==
    /\ cpu.status = "off"
    /\ \E image \in {"lib", "main"}, a \in RegVals, d \in RegVals :
        cpu' = [CpuOff EXCEPT
                  !.status = "running",
                  !.image = image,
                  !.code = IF image = "lib" THEN create_program
                           ELSE main_create_program,
                  !.regs = [r \in 0..7 |-> IF r = rax THEN a
                                            ELSE IF r = edi THEN d ELSE Zero8],
                  !.rax0 = a, !.rdi0 = d]
    /\ UNCHANGED <<pc, caller, path, program, buf, pos, fs, fs0, lastLib, lastMain, calls>>

Step ==
    /\ cpu.status = "running"
    /\ cpu' = Exec(cpu)
    /\ UNCHANGED <<pc, caller, path, program, buf, pos, fs, fs0, lastLib, lastMain, calls>>

NextExec == Boot \/ Step

SpecExec == InitExec /\ [][NextExec]_vars

---------------------------------------------------------------------------
(* Reading a buffer back, at the byte offsets of the ELF-64 standard *)

At(b, off, n) == Slice(b, off, n)
U(b, off, n) == Decode(Slice(b, off, n))

\* create_elf of src/lib.rs has returned its buffer
LibBuilt ==
    /\ caller \in {"create_elf", "write_elf"}
    /\ pc \in {"built", "done", "write", "ok", "err"}

\* main of src/main.rs has assembled its buffer
MainBuilt ==
    /\ caller = "main"
    /\ pc \in {"built", "write", "ok", "err"}

---------------------------------------------------------------------------
(* Claims *)

\* C1: the first 64 bytes of the buffer create_elf returns are the ELF64 file
\* header of the layout table, for every payload: magic 7F 45 4C 46, class 2,
\* data 1, version 1, OS/ABI 0, ABI version 0, seven zero pad bytes (a 16-byte
\* identification block), type 2, machine 62, version 1, entry 0x400000 + 120,
\* phoff 64, flags 0, ehsize 64, phentsize 56, phnum 1, and shoff, shentsize,
\* shnum and shstrndx all 0 although set_elf64_hdr never writes them.
C1_FileHeader ==
    LibBuilt =>
        /\ Len(buf) >= 64
        /\ SizeOf(elf64_ident) = 16
        /\ At(buf, 0, 4) = <<127, 69, 76, 70>>
        /\ At(buf, 4, 5) = <<2, 1, 1, 0, 0>>
        /\ At(buf, 9, 7) = <<0, 0, 0, 0, 0, 0, 0>>
        /\ At(buf, 16, 2) = <<2, 0>>
        /\ At(buf, 18, 2) = <<62, 0>>
        /\ At(buf, 20, 4) = <<1, 0, 0, 0>>
        /\ At(buf, 24, 8) = <<120, 0, 64, 0, 0, 0, 0, 0>>
        /\ At(buf, 32, 8) = <<64, 0, 0, 0, 0, 0, 0, 0>>
        /\ At(buf, 40, 8) = <<0, 0, 0, 0, 0, 0, 0, 0>>
        /\ At(buf, 48, 4) = <<0, 0, 0, 0>>
        /\ At(buf, 52, 2) = <<64, 0>>
        /\ At(buf, 54, 2) = <<56, 0>>
        /\ At(buf, 56, 2) = <<1, 0>>
        /\ At(buf, 58, 2) = <<0, 0>>
        /\ At(buf, 60, 2) = <<0, 0>>
        /\ At(buf, 62, 2) = <<0, 0>>

C1_Witness ==
    /\ caller = "write_elf" /\ pc = "ok"
    /\ Len(buf) > 64

\* C2: bytes 64..119 of the buffer create_elf returns are a program header
\* with type 1 (LOAD), flags 7, file offset 120, virtual address
\* 0x400000 + 120, filesz = memsz = L and alignment 4096, for every payload
\* length L >= 0, the empty payload included.
C2_ProgramHeader ==
    LibBuilt =>
        /\ Len(buf) >= 120
        /\ At(buf, 64, 4) = <<1, 0, 0, 0>>
        /\ At(buf, 68, 4) = <<7, 0, 0, 0>>
        /\ At(buf, 72, 8) = <<120, 0, 0, 0, 0, 0, 0, 0>>
        /\ At(buf, 80, 8) = <<120, 0, 64, 0, 0, 0, 0, 0>>
        /\ At(buf, 96, 8) = LE(Len(program), 8)
        /\ At(buf, 104, 8) = LE(Len(program), 8)
        /\ At(buf, 112, 8) = <<0, 16, 0, 0, 0, 0, 0, 0>>

C2_Witness ==
    /\ caller = "create_elf" /\ pc = "done"
    /\ program = <<>>
    /\ Len(buf) = 120

\* C3: in every buffer create_elf returns the separately computed offsets
\* agree: entry - VADDR = vaddr - VADDR = offset = ehsize + phnum * phentsize,
\* and phoff = ehsize, whatever the payload.
C3_OffsetsAgree ==
    LibBuilt =>
        LET entry == U(buf, 24, 8)
            phoff == U(buf, 32, 8)
            ehsize == U(buf, 52, 2)
            phentsize == U(buf, 54, 2)
            phnum == U(buf, 56, 2)
            offset == U(buf, 72, 8)
            vaddr == U(buf, 80, 8)
        IN  /\ entry - 4194304 = vaddr - 4194304
            /\ vaddr - 4194304 = offset
            /\ offset = ehsize + phnum * phentsize
            /\ phoff = ehsize

C3_Witness ==
    /\ caller = "write_elf" /\ pc = "built"
    /\ U(buf, 72, 8) = 120

\* C4: the buffer create_elf(p) returns has length 120 + len(p) and ends with
\* p, byte for byte, at offset 120; the two header writers leave every byte at
\* offset >= 120 as it was allocated.
C4_Concatenation ==
    /\ (caller \in {"create_elf", "write_elf"} /\ pc \in {"hdr", "phdr", "copy"}) =>
          /\ Len(buf) = 120 + Len(program)
          /\ \A i \in 121..Len(buf) : buf[i] = 0
    /\ LibBuilt =>
          /\ Len(buf) = 120 + Len(program)
          /\ At(buf, 120, Len(program)) = program

C4_Witness ==
    /\ caller = "create_elf" /\ pc = "done"
    /\ Len(program) = 2 /\ program[1] # program[2]
    /\ At(buf, 120, 2) = program

\* C5: create_program's payload is the seven bytes of push 60; pop rax;
\* xor edi, edi; syscall, and running it from its first byte, whatever rax and
\* rdi held, never faults, has rax = 60 once the pop is done, rdi = 0 once the
\* xor is done, and stops at the syscall, its last instruction, with rax = 60
\* and rdi = 0.
C5_ExitSyscall ==
    cpu.image = "lib" =>
        /\ cpu.code = <<106, 60, 88, 49, 255, 15, 5>>
        /\ cpu.status \in {"running", "syscall"}
        /\ cpu.status = "running" => cpu.ip \in {0, 2, 3, 5}
        /\ cpu.ip >= 3 => cpu.regs[0] = <<60, 0, 0, 0, 0, 0, 0, 0>>
        /\ cpu.ip >= 5 => cpu.regs[7] = Zero8
        /\ cpu.status = "syscall" =>
              /\ cpu.ip = 7 /\ cpu.ip = Len(cpu.code)
              /\ cpu.regs[0] = <<60, 0, 0, 0, 0, 0, 0, 0>>
              /\ cpu.regs[7] = Zero8

C5_Witness ==
    /\ cpu.image = "lib" /\ cpu.status = "syscall"
    /\ cpu.rax0 = <<255, 255, 255, 255, 255, 255, 255, 255>>
    /\ cpu.rdi0 = <<1, 0, 0, 0, 1, 0, 0, 0>>

\* C6: when write_elf returns an error (open failed, or write_all failed
\* part-way) the file at the path is what it was before the call: nothing was
\* created, nothing modified.
C6_NoPartialFile ==
    (caller = "write_elf" /\ pc = "err") => fs[path] = fs0[path]

\* C7: after write_elf(path) returns Ok the file at path holds exactly the
\* assembled buffer and nothing else, whatever was at the path before.
C7_FileIsBuffer ==
    (caller = "write_elf" /\ pc = "ok") =>
        /\ fs[path].exists
        /\ fs[path].data = buf
        /\ Len(fs[path].data) = 64 + 56 + Len(program)

\* C8: for every non-empty payload the returned buffer is a loadable
\* single-segment image: the program header table and the segment's file range
\* lie inside the buffer, the segment ends where the buffer ends, vaddr and
\* offset are congruent modulo align, and the entry address is the segment's
\* first byte, where byte 0 of the payload is.
C8_Loadable ==
    (LibBuilt /\ Len(program) > 0) =>
        LET entry == U(buf, 24, 8)
            phoff == U(buf, 32, 8)
            phentsize == U(buf, 54, 2)
            phnum == U(buf, 56, 2)
            offset == U(buf, 72, 8)
            vaddr == U(buf, 80, 8)
            filesz == U(buf, 96, 8)
            memsz == U(buf, 104, 8)
            align == U(buf, 112, 8)
        IN  /\ phoff + phnum * phentsize <= Len(buf)
            /\ offset <= Len(buf)
            /\ offset + filesz = Len(buf)
            /\ align > 0
            /\ vaddr % align = offset % align
            /\ entry >= vaddr /\ entry < vaddr + memsz
            /\ entry = vaddr
            /\ buf[offset + (entry - vaddr) + 1] = program[1]

C8_Witness ==
    /\ caller = "create_elf" /\ pc = "done"
    /\ Len(program) = 1
    /\ U(buf, 96, 8) = 1

C10_SameBuffer ==
    (MainBuilt /\ lastLib # <<>>) => buf = lastLib

\* C10 (amended): main's buffer and write_elf's agree on the 64-byte file
\* header and on the program header but for filesz and memsz, which are 5 in
\* main's and 7 in write_elf's; main's payload is push 60; pop rax; syscall
\* (5 bytes, no xor edi, edi) where write_elf's is push 60; pop rax;
\* xor edi, edi; syscall (7 bytes); the buffers are 125 and 127 bytes long.
C10_HeadersAgree ==
    (MainBuilt /\ lastLib # <<>>) =>
        /\ Len(buf) = 125 /\ Len(lastLib) = 127
        /\ At(buf, 0, 96) = At(lastLib, 0, 96)
        /\ At(buf, 112, 8) = At(lastLib, 112, 8)
        /\ At(buf, 96, 8) = LE(5, 8) /\ At(buf, 104, 8) = LE(5, 8)
        /\ At(lastLib, 96, 8) = LE(7, 8) /\ At(lastLib, 104, 8) = LE(7, 8)
        /\ At(buf, 120, 5) = <<106, 60, 88, 15, 5>>
        /\ At(lastLib, 120, 7) = <<106, 60, 88, 49, 255, 15, 5>>

C10_Witness ==
    /\ caller = "main" /\ pc = "ok"
    /\ lastLib # <<>>
    /\ fs["tiny"].data # lastLib

====
